---- MODULE Spec2Model ----
(***************************************************************************)
(* A model of generate_pdf_direct.py: create_api_pdf builds the list       *)
(* `elements` of ReportLab flowables statement by statement and hands it   *)
(* to SimpleDocTemplate.build, which paginates it and writes               *)
(* API_DOCUMENTATION.pdf.                                                  *)
(*                                                                         *)
(* Lengths are integers in units of 1/2000000 point (72 points = 1 inch),  *)
(* so that every length of the source (k*inch/100, k*0.0393701) is exact.  *)
(* Texts are sequences of strings: an endpoint title "POST /path" is       *)
(* <<"POST", "/path">>, any other text is one string.  Long literals are   *)
(* named after the Python variable that holds them; emoji are left out.    *)
(***************************************************************************)
EXTENDS Integers, Sequences, FiniteSets, TLC

(***************************************************************************)
(* Bounds of the model.                                                    *)
(***************************************************************************)
\* how many times the entry point is run one after the other
MaxRuns == 2
\* the layout engine's frame capacity, in rows of text: unknown to the
\* source (it depends on font metrics), so every value of the range is tried
MinFrameCap == 11
MaxFrameCap == 12
\* the widest column of a scenario table, in inches
MaxColInches == 5

(***************************************************************************)
(* Units and page geometry (lines 6-9, 18-28).                             *)
(***************************************************************************)
\* reportlab.lib.units.inch = 72 points
inch == 144000000
\* line 19: mm = 0.0393701, kept ten times finer than the unit: 0.0393701
\* points are 78740.2 units
mm == 787402
\* k*mm of the source, in units (exact for the multiples of 5 the source uses)
TimesMm(k) == (k * mm) \div 10
\* n/d*inch of the source: 1.5*inch is Dec(15, 10), 0.08*inch is Dec(8, 100)
Dec(n, d) == n * (inch \div d)
\* reportlab.lib.pagesizes.A4 = (210 mm, 297 mm) = (595.2756, 841.8898) points
A4Width == 1190551181
A4Height == 1683779527

pdf_filename == "API_DOCUMENTATION.pdf"

NoDoc == [filename |-> "", pageWidth |-> 0, pageHeight |-> 0,
          rightMargin |-> 0, leftMargin |-> 0, topMargin |-> 0, bottomMargin |-> 0]

\* lines 20-28
SimpleDocTemplate ==
    [filename |-> pdf_filename, pageWidth |-> A4Width, pageHeight |-> A4Height,
     rightMargin |-> TimesMm(15), leftMargin |-> TimesMm(15),
     topMargin |-> TimesMm(20), bottomMargin |-> TimesMm(20)]

\* the width left for content: page width minus the left and right margins
ContentWidth(d) == d.pageWidth - d.leftMargin - d.rightMargin

(***************************************************************************)
(* Styles (lines 34-85, 93-96, 263-265, 274-277, 436-439, 680-687).        *)
(***************************************************************************)
\* the names getSampleStyleSheet() defines
SampleStyleSheet ==
    {"Normal", "BodyText", "Italic", "Heading1", "Heading2", "Heading3",
     "Heading4", "Heading5", "Heading6", "Title", "Bullet", "Definition",
     "Code", "UnorderedList", "OrderedList"}

\* ParagraphStyle(name, parent=styles[parent], backColor=..., leftIndent=...)
ParagraphStyle(name, parent, backColor, leftIndent) ==
    [name |-> name, parent |-> parent, backColor |-> backColor, leftIndent |-> leftIndent]

NoStyle == ParagraphStyle("", "", "", 0)

title_style      == ParagraphStyle("CustomTitle", "Heading1", "", 0)
heading_style    == ParagraphStyle("CustomHeading", "Heading2", "#667eea", 0)
subheading_style == ParagraphStyle("CustomSubHeading", "Heading3", "", 0)
body_style       == ParagraphStyle("CustomBody", "BodyText", "", 0)
code_style       == ParagraphStyle("CodeStyle", "Normal", "#1e1e1e", 0)
footer_style     == ParagraphStyle("Footer", "Normal", "", 0)
\* the styles built in place, inside the call that builds the block
SubtitleStyle    == ParagraphStyle("Subtitle", "Normal", "", 0)
\* the requirement style without its background and its indent
ReqBoxStylePlain == ParagraphStyle("ReqBox", "Normal", "", 0)
ReqBoxStyle      == ParagraphStyle("ReqBox", "Normal", "#fff3cd", 10)
AuthStyle        == ParagraphStyle("Auth", "Normal", "#f8d7da", 10)
NoteStyle        == ParagraphStyle("Note", "Normal", "#e7f3ff", 10)

(***************************************************************************)
(* Blocks: the flowables of reportlab.platypus.                            *)
(***************************************************************************)
Paragraph(text, style) ==
    [kind |-> "Paragraph", text |-> text, style |-> style, colWidths |-> <<>>,
     rows |-> 0, tstyle |-> <<>>, cellStyles |-> {}, size |-> 0]

\* Table(data, colWidths=...).setStyle(TableStyle(tstyle)); data is kept as its
\* name, its number of rows and the styles of the paragraphs in its cells
Table(data, rows, colWidths, tstyle, cellStyles) ==
    [kind |-> "Table", text |-> <<data>>, style |-> "", colWidths |-> colWidths,
     rows |-> rows, tstyle |-> tstyle, cellStyles |-> cellStyles, size |-> 0]

\* Spacer(1, size)
Spacer(size) ==
    [kind |-> "Spacer", text |-> <<>>, style |-> "", colWidths |-> <<>>,
     rows |-> 0, tstyle |-> <<>>, cellStyles |-> {}, size |-> size]

PageBreak ==
    [kind |-> "PageBreak", text |-> <<>>, style |-> "", colWidths |-> <<>>,
     rows |-> 0, tstyle |-> <<>>, cellStyles |-> {}, size |-> 0]

\* a TableStyle command over the cells (c0, r0)..(c1, r1); -1 is the last
Cmd(cmd, c0, r0, c1, r1, val) ==
    [cmd |-> cmd, c0 |-> c0, r0 |-> r0, c1 |-> c1, r1 |-> r1, val |-> val]

\* lines 99-107: the commands that set colours or fonts
TitleTableStyle ==
    << Cmd("BACKGROUND", 0, 0, -1, -1, <<"#667eea">>) >>

\* lines 120-129
MetadataTableStyle ==
    << Cmd("BACKGROUND", 0, 0, -1, -1, <<"#f0f4ff">>),
       Cmd("TEXTCOLOR", 0, 0, -1, -1, <<"#333333">>),
       Cmd("FONTNAME", 0, 0, -1, 0, <<"Helvetica-Bold">>) >>

\* the style of the data tables without its last command
HeaderTableStyleNoRows ==
    << Cmd("BACKGROUND", 0, 0, -1, 0, <<"#667eea">>),
       Cmd("TEXTCOLOR", 0, 0, -1, 0, <<"whitesmoke">>),
       Cmd("FONTNAME", 0, 0, -1, 0, <<"Helvetica-Bold">>),
       Cmd("BACKGROUND", 0, 1, -1, -1, <<"#f9f9f9">>) >>

\* lines 169-182 (and 196-207, 220-232, 325-338, 617-629, 644-656, which set
\* the same colours and fonts)
HeaderTableStyle ==
    << Cmd("BACKGROUND", 0, 0, -1, 0, <<"#667eea">>),
       Cmd("TEXTCOLOR", 0, 0, -1, 0, <<"whitesmoke">>),
       Cmd("FONTNAME", 0, 0, -1, 0, <<"Helvetica-Bold">>),
       Cmd("BACKGROUND", 0, 1, -1, -1, <<"#f9f9f9">>),
       Cmd("ROWBACKGROUNDS", 0, 1, -1, -1, <<"white", "#f9f9f9">>) >>

\* a row index of a command in a table of n rows: -1 is the last row
RowIndex(i, n) == IF i < 0 THEN n + i ELSE i

\* whether a command of the given kinds reaches row r of a table of n rows
Reaches(c, kinds, r, n) ==
    c.cmd \in kinds /\ RowIndex(c.r0, n) <= r /\ r <= RowIndex(c.r1, n)

\* what a command gives row r: its one value, or for ROWBACKGROUNDS the value
\* whose turn it is, counting from the command's first row
Given(c, r, n) ==
    IF c.cmd = "ROWBACKGROUNDS"
    THEN c.val[((r - RowIndex(c.r0, n)) % Len(c.val)) + 1]
    ELSE c.val[1]

\* the engine applies the commands of a table's style in their order, so the
\* last command that reaches a row decides; "" when none does
Applied(tstyle, kinds, r, n) ==
    LET hits == {k \in 1..Len(tstyle) : Reaches(tstyle[k], kinds, r, n)}
    IN IF hits = {} THEN ""
       ELSE Given(tstyle[CHOOSE k \in hits : \A j \in hits : j <= k], r, n)

RowBackground(t, r) == Applied(t.tstyle, {"BACKGROUND", "ROWBACKGROUNDS"}, r, t.rows)
RowTextColor(t, r) == Applied(t.tstyle, {"TEXTCOLOR"}, r, t.rows)
RowFontName(t, r) == Applied(t.tstyle, {"FONTNAME"}, r, t.rows)

(***************************************************************************)
(* Statements of create_api_pdf.  A statement is one of                    *)
(*   "doc"     doc = SimpleDocTemplate(...)                  (lines 18-28) *)
(*   "list"    elements = []                                 (line 31)     *)
(*   "sheet"   styles = getSampleStyleSheet()                (line 34)     *)
(*   "style"   x_style = ParagraphStyle(...)                               *)
(*   "append"  elements.append(block); `inl` holds the styles built in     *)
(*             place by the expression that builds the block               *)
(*   "say"     print("Generating PDF...")                    (line 691)    *)
(*   "build"   doc.build(elements)                           (line 692)    *)
(*   "confirm" the prints of lines 694-702                                 *)
(***************************************************************************)
Stmt(op, blk, sdef, inl) == [op |-> op, blk |-> blk, sdef |-> sdef, inl |-> inl]

DocStmt     == Stmt("doc", PageBreak, NoStyle, <<>>)
ListStmt    == Stmt("list", PageBreak, NoStyle, <<>>)
SheetStmt   == Stmt("sheet", PageBreak, NoStyle, <<>>)
SayStmt     == Stmt("say", PageBreak, NoStyle, <<>>)
BuildStmt   == Stmt("build", PageBreak, NoStyle, <<>>)
ConfirmStmt == Stmt("confirm", PageBreak, NoStyle, <<>>)
DefStyle(sdef) == Stmt("style", PageBreak, sdef, <<>>)
\* elements.append(Paragraph(text, x_style)): the style is a variable
P(text, style) == Stmt("append", Paragraph(text, style.name), NoStyle, <<>>)
\* elements.append(Paragraph(text, ParagraphStyle(...))): the style is built in place
PI(text, sdef) == Stmt("append", Paragraph(text, sdef.name), NoStyle, <<sdef>>)
S(size) == Stmt("append", Spacer(size), NoStyle, <<>>)
PB == Stmt("append", PageBreak, NoStyle, <<>>)
T(data, rows, colWidths, tstyle) ==
    Stmt("append", Table(data, rows, colWidths, tstyle, {}), NoStyle, <<>>)

Txt(s) == <<s>>
Bold(text) == <<"<b>">> \o text \o <<"</b>">>

RECURSIVE Flatten(_)
Flatten(ss) == IF ss = <<>> THEN <<>> ELSE Head(ss) \o Flatten(Tail(ss))

\* for item in list: Body(item)
ForEach(list, Body(_)) == Flatten([i \in 1..Len(list) |-> Body(list[i])])


(***************************************************************************)
(* The sections of create_api_pdf, each the statements of its lines.       *)
(***************************************************************************)
\* lines 18-85
Prologue ==
    << DocStmt, ListStmt, SheetStmt,
       DefStyle(title_style), DefStyle(heading_style), DefStyle(subheading_style),
       DefStyle(body_style), DefStyle(code_style) >>

\* the title page with a title table wider than the page
TitlePageWide ==
    << S(Dec(15, 10)),
       Stmt("append",
            Table("title_data", 2, <<9 * inch>>, TitleTableStyle,
                  {title_style.name, SubtitleStyle.name}),
            NoStyle, <<SubtitleStyle>>),
       S(Dec(5, 10)),
       T("metadata_data", 4, <<2 * inch, 2 * inch>>, MetadataTableStyle),
       PB >>

\* lines 87-132
TitlePage ==
    << S(Dec(15, 10)),
       Stmt("append",
            Table("title_data", 2, <<7 * inch>>, TitleTableStyle,
                  {title_style.name, SubtitleStyle.name}),
            NoStyle, <<SubtitleStyle>>),
       S(Dec(5, 10)),
       T("metadata_data", 4, <<2 * inch, 2 * inch>>, MetadataTableStyle),
       PB >>

\* the list with the entries of the orders and the payments exchanged
toc_items_exchanged ==
    << "1. Authentication & Authorization", "2. User Management",
       "3. Medicine Store", "4. Admin Store Management", "5. Items Management",
       "6. Location Services", "7. Unit Management", "8. GST Management",
       "10. Payments", "9. Orders", "11. Notifications", "12. Response Formats" >>

\* lines 137-150
toc_items ==
    << "1. Authentication & Authorization", "2. User Management",
       "3. Medicine Store", "4. Admin Store Management", "5. Items Management",
       "6. Location Services", "7. Unit Management", "8. GST Management",
       "9. Orders", "10. Payments", "11. Notifications", "12. Response Formats" >>

\* lines 152-154
TocLoopBody(item) == << P(Txt(item), body_style), S(Dec(1, 10)) >>

\* lines 134-156
TableOfContents ==
    << P(Txt("Table of Contents"), heading_style) >>
    \o ForEach(toc_items, TocLoopBody)
    \o << PB >>

\* lines 158-235
AuthSection ==
    << P(Txt("Authentication & Authorization"), heading_style),
       P(Txt("Authentication Methods"), subheading_style),
       T("auth_data", 3, <<Dec(15, 10), Dec(25, 10), Dec(25, 10)>>, HeaderTableStyle),
       S(Dec(2, 10)),
       P(Txt("Required Headers"), subheading_style),
       T("headers_data", 5, <<Dec(18, 10), Dec(22, 10), Dec(25, 10)>>, HeaderTableStyle),
       S(Dec(2, 10)),
       P(Txt("User Roles & Permissions"), subheading_style),
       T("roles_data", 4, <<Dec(12, 10), Dec(25, 10), Dec(28, 10)>>, HeaderTableStyle),
       PB >>

\* lines 237-301
UserSection ==
    << P(Txt("User Management Endpoints"), heading_style),
       \* Login Endpoint
       P(<<"POST", "/api/v2/user/login">>, subheading_style),
       P(Txt("Authenticate user with email and password. Returns JWT token for subsequent requests."), body_style),
       P(Txt("login_request"), code_style),
       S(Dec(1, 10)),
       P(Txt("Request Example:"), subheading_style),
       P(Txt("login_json"), code_style),
       S(Dec(1, 10)),
       P(Txt("Success Response (200 OK):"), body_style),
       P(Txt("success_response"), code_style),
       S(Dec(15, 100)),
       PI(Txt("<b>Requirements:</b>..."), ReqBoxStyle),
       S(Dec(1, 10)),
       \* Logout Endpoint
       P(<<"POST", "/api/v2/user/logout">>, subheading_style),
       P(Txt("Logout user by invalidating the JWT token. Clears authentication cookie."), body_style),
       PI(Txt("<b>Authentication Required:</b> Bearer Token or Valid JWT Cookie"), AuthStyle),
       S(Dec(2, 10)),
       \* Forgot Password
       P(<<"POST", "/api/v2/user/forgot/password">>, subheading_style),
       P(Txt("Request password reset. Sends OTP to registered email address."), body_style),
       P(Txt("Request Body: email (String, Required)"), code_style),
       S(Dec(15, 100)),
       \* Verify OTP
       P(<<"POST", "/api/v2/user/verifyOtp">>, subheading_style),
       P(Txt("Verify OTP sent to email for password reset."), body_style),
       P(Txt("Request Body: email (String, Required), otp (String, Required)"), code_style),
       S(Dec(15, 100)),
       \* Reset Password
       P(<<"POST", "/api/v2/user/ResetPassword">>, subheading_style),
       P(Txt("Reset user password after OTP verification. Internal service only."), body_style),
       PI(Txt("<b>Requires:</b> verifyInternalService Middleware"), AuthStyle),
       PB >>

\* lines 303-355
StoreSection ==
    << P(Txt("Medicine Store Endpoints"), heading_style),
       P(<<"POST", "/api/v2/medicine-store/register">>, subheading_style),
       P(Txt("Register a new medicine store with complete verification including GST, pharmacy license, and address validation."), body_style),
       S(Dec(1, 10)),
       T("store_req_data", 12, <<Dec(12, 10), 1 * inch, Dec(8, 10), Dec(23, 10)>>, HeaderTableStyle),
       S(Dec(15, 100)),
       P(Txt("Request Example:"), subheading_style),
       P(Txt("store_json"), code_style),
       S(Dec(1, 10)),
       PI(Txt("<b>Validation Requirements:</b>..."), ReqBoxStyle),
       PB >>

\* lines 360-365
admin_endpoints ==
    << << <<"GET", "/api/v2/admin/stores/pending">>, "Get all stores awaiting verification. Admin only." >>,
       << <<"GET", "/api/v2/admin/stores/:storeId">>, "Get detailed information about a specific store for verification review." >>,
       << <<"PUT", "/api/v2/admin/stores/:storeId/status">>, "Update store verification status (approve, reject, suspend)." >>,
       << <<"GET", "/api/v2/admin/stores/stats/verification">>, "Get verification statistics and summary." >> >>

\* the loop body without its Spacer
EndpointLoopBodyNoSpacer(item) ==
    << P(item[1], subheading_style), P(Txt(item[2]), body_style) >>

\* lines 367-370, 425-428
EndpointLoopBody10(item) ==
    << P(item[1], subheading_style), P(Txt(item[2]), body_style), S(Dec(1, 10)) >>

\* lines 399-402, 493-496, 570-573
EndpointLoopBody8(item) ==
    << P(item[1], subheading_style), P(Txt(item[2]), body_style), S(Dec(8, 100)) >>

\* lines 455-458, 470-473
UnitLoopBody(item) ==
    << P(Bold(item[1]), body_style), P(Txt(item[2]), body_style), S(Dec(5, 100)) >>

\* lines 357-386
AdminSection ==
    << P(Txt("Admin Store Management"), heading_style) >>
    \o ForEach(admin_endpoints, EndpointLoopBody10)
    \o << P(Txt("Status Update Body:"), subheading_style),
          P(Txt("status_json"), code_style),
          S(Dec(1, 10)),
          PI(Txt("<b>Requirements:</b>..."), ReqBoxStyle),
          PB >>

\* lines 391-397
items_endpoints ==
    << << <<"POST", "/api/v2/items/add">>, "Create new regular item. Requires authentication and file uploads." >>,
       << <<"POST", "/api/v2/items/premium">>, "Create premium/featured item with enhanced visibility." >>,
       << <<"PUT", "/api/v2/items/update/:itemId">>, "Update existing item including images." >>,
       << <<"DELETE", "/api/v2/items/delete/:itemId">>, "Delete single item (admin only)." >>,
       << <<"DELETE", "/api/v2/items/">>, "Delete all items (admin only - destructive operation)." >> >>

\* lines 388-414
ItemsSection ==
    << P(Txt("Items Management"), heading_style) >>
    \o ForEach(items_endpoints, EndpointLoopBody8)
    \o << S(Dec(1, 10)),
          PI(Txt("<b>Item Requirements:</b>..."), ReqBoxStyle),
          PB >>

\* lines 419-423
loc_endpoints ==
    << << <<"GET", "/api/v2/location/states">>, "Get list of all Indian states and union territories." >>,
       << <<"GET", "/api/v2/location/cities/:state">>, "Get list of cities for a given state." >>,
       << <<"GET", "/api/v2/location/pincode/:pincode">>, "Get city and state information for a given pincode." >> >>

\* lines 416-441
LocationSection ==
    << P(Txt("Location Services"), heading_style) >>
    \o ForEach(loc_endpoints, EndpointLoopBody10)
    \o << P(Txt("pincode_example"), code_style),
          S(Dec(1, 10)),
          PI(Txt("<b>Note:</b> Public endpoints, no authentication required."), NoteStyle),
          PB >>

\* lines 448-453
parent_units ==
    << << <<"POST", "/api/v2/units/add-parent-units">>, "Create new parent unit (base measurement unit)." >>,
       << <<"GET", "/api/v2/units/get-parent-units">>, "Get all parent units (admin only)." >>,
       << <<"PUT", "/api/v2/units/update-parent-units/:id">>, "Update parent unit (admin only)." >>,
       << <<"DELETE", "/api/v2/units/delete-parent-units/:id">>, "Delete parent unit (admin only)." >> >>

\* lines 463-468
child_units ==
    << << <<"POST", "/api/v2/units/add-child-units">>, "Create child unit (derived from parent unit)." >>,
       << <<"GET", "/api/v2/units/get-child-units">>, "Get all child units (admin only)." >>,
       << <<"PUT", "/api/v2/units/update-child-units/:id">>, "Update child unit (admin only)." >>,
       << <<"DELETE", "/api/v2/units/delete-child-units/:id">>, "Delete child unit (admin only)." >> >>

\* lines 443-481
UnitsSection ==
    << P(Txt("Unit Management"), heading_style),
       P(Txt("Parent Units (e.g., Kilogram, Liter)"), subheading_style) >>
    \o ForEach(parent_units, UnitLoopBody)
    \o << S(Dec(15, 100)),
          P(Txt("Child Units (e.g., 100ml, 500g)"), subheading_style) >>
    \o ForEach(child_units, UnitLoopBody)
    \o << S(Dec(1, 10)),
          P(Txt("child_json"), code_style),
          PB >>

\* lines 486-491
gst_endpoints ==
    << << <<"POST", "/api/v2/gst/add">>, "Add new GST rate for product category." >>,
       << <<"PUT", "/api/v2/gst/update/:gstId">>, "Update existing GST rate." >>,
       << <<"DELETE", "/api/v2/gst/delete/:gstId">>, "Delete GST rate." >>,
       << <<"GET", "/api/v2/gst/">>, "Get all GST rates." >> >>

\* lines 483-504
GstSection ==
    << P(Txt("GST Rate Management"), heading_style) >>
    \o ForEach(gst_endpoints, EndpointLoopBody8)
    \o << P(Txt("gst_json"), code_style),
          PB >>

\* lines 506-532
OrdersSection ==
    << P(Txt("Orders"), heading_style),
       P(<<"POST", "/api/v2/orders">>, subheading_style),
       P(Txt("Create new order with automatic notification to user."), body_style),
       P(Txt("order_fields"), code_style),
       S(Dec(1, 10)),
       P(Txt("order_json"), code_style),
       S(Dec(1, 10)),
       P(<<"PATCH", "/api/v2/orders/:orderId/status">>, subheading_style),
       P(Txt("Update order status and notify user."), body_style),
       P(Txt("order_status"), code_style),
       PB >>

\* lines 534-558
PaymentsSection ==
    << P(Txt("Payments"), heading_style),
       P(<<"POST", "/api/v2/payments">>, subheading_style),
       P(Txt("Process payment and send confirmation notification."), body_style),
       P(Txt("payment_fields"), code_style),
       S(Dec(1, 10)),
       P(<<"POST", "/api/v2/payments/:paymentId/refund">>, subheading_style),
       P(Txt("Process refund. Reflects in 5-7 business days."), body_style),
       P(Txt("refund_json"), code_style),
       S(Dec(1, 10)),
       P(<<"POST", "/api/v2/payments/failed">>, subheading_style),
       P(Txt("Handle failed payment and notify user."), body_style),
       PB >>

\* lines 563-568
notif_endpoints ==
    << << <<"GET", "/api/v2/notification-service/health">>, "Check notification service health (public)." >>,
       << <<"POST", "/api/v2/notification-service/send-to-user">>, "Send to authenticated user (requires auth)." >>,
       << <<"POST", "/api/v2/notification-service/send-to-users">>, "Send to multiple users by userIds array." >>,
       << <<"POST", "/api/v2/notification-service/send-bulk">>, "Send bulk notifications (up to 1000 users)." >> >>

\* lines 560-588
NotificationsSection ==
    << P(Txt("Notifications"), heading_style) >>
    \o ForEach(notif_endpoints, EndpointLoopBody8)
    \o << P(Txt("notif_json"), code_style),
          S(Dec(1, 10)),
          PI(Txt("<b>Notification Requirements:</b>..."), ReqBoxStyle),
          PB >>

\* the last section without the PageBreak of line 659
ResponseSectionNoBreak ==
    << P(Txt("Standard Response Formats"), heading_style),
       P(Txt("Success Response (2xx)"), subheading_style),
       P(Txt("success_fmt"), code_style),
       S(Dec(15, 100)),
       P(Txt("Error Response (4xx/5xx)"), subheading_style),
       P(Txt("error_fmt"), code_style),
       S(Dec(15, 100)),
       P(Txt("HTTP Status Codes"), subheading_style),
       T("status_data", 9, <<Dec(8, 10), Dec(15, 10), Dec(32, 10)>>, HeaderTableStyle),
       S(Dec(2, 10)),
       P(Txt("Pagination & Rate Limiting"), subheading_style),
       T("pagination_data", 6, <<2 * inch, Dec(12, 10), Dec(28, 10)>>, HeaderTableStyle) >>

\* lines 590-659
ResponseSection ==
    << P(Txt("Standard Response Formats"), heading_style),
       P(Txt("Success Response (2xx)"), subheading_style),
       P(Txt("success_fmt"), code_style),
       S(Dec(15, 100)),
       P(Txt("Error Response (4xx/5xx)"), subheading_style),
       P(Txt("error_fmt"), code_style),
       S(Dec(15, 100)),
       P(Txt("HTTP Status Codes"), subheading_style),
       T("status_data", 9, <<Dec(8, 10), Dec(15, 10), Dec(32, 10)>>, HeaderTableStyle),
       S(Dec(2, 10)),
       P(Txt("Pagination & Rate Limiting"), subheading_style),
       T("pagination_data", 6, <<2 * inch, Dec(12, 10), Dec(28, 10)>>, HeaderTableStyle),
       PB >>

\* the closing summary with a page break appended after it
FooterThenBreak ==
    << DefStyle(footer_style),
       P(Txt("footer_content"), footer_style),
       PB >>

\* lines 661-688
Footer ==
    << DefStyle(footer_style),
       P(Txt("footer_content"), footer_style) >>

\* the epilogue with a block appended after the engine was called
EpilogueAppendAfterBuild == << SayStmt, BuildStmt, PB, ConfirmStmt >>

\* the confirmation printed before the build call
EpilogueConfirmFirst == << SayStmt, ConfirmStmt, BuildStmt >>

\* lines 690-702
Epilogue == << SayStmt, BuildStmt, ConfirmStmt >>

\* the body with the GST section moved behind the orders section
ProgramReordered ==
    Prologue \o TitlePage \o TableOfContents \o AuthSection \o UserSection
    \o StoreSection \o AdminSection \o ItemsSection \o LocationSection
    \o UnitsSection \o OrdersSection \o GstSection \o PaymentsSection
    \o NotificationsSection \o ResponseSection \o Footer \o Epilogue

\* the body of create_api_pdf, lines 14-702
Program ==
    Prologue \o TitlePage \o TableOfContents \o AuthSection \o UserSection
    \o StoreSection \o AdminSection \o ItemsSection \o LocationSection
    \o UnitsSection \o GstSection \o OrdersSection \o PaymentsSection
    \o NotificationsSection \o ResponseSection \o Footer \o Epilogue


(***************************************************************************)
(* The layout engine: SimpleDocTemplate.build (line 692).  It fills each   *)
(* page with blocks until the frame is full, starts a new page at every    *)
(* PageBreak, and writes the file when the layout is done.  The height of  *)
(* a block is counted in rows: a Paragraph is one row, a Table has its     *)
(* rows, a Spacer and a PageBreak have none.                               *)
(***************************************************************************)
Height(b) ==
    CASE b.kind = "Paragraph" -> 1
      [] b.kind = "Table" -> b.rows
      [] OTHER -> 0

\* the rows of blocks[a..b], one pair (k, r) for row r of block k
RowsIn(blocks, a, b) ==
    Cardinality(UNION {{k} \X (1..Height(blocks[k])) : k \in a..b})

\* the PageBreaks before block i
BreaksBefore(blocks, i) == {j \in 1..(i - 1) : blocks[j].kind = "PageBreak"}

\* the last PageBreak before block i, or 0
LastBreak(blocks, i) ==
    IF BreaksBefore(blocks, i) = {} THEN 0
    ELSE CHOOSE j \in BreaksBefore(blocks, i) : \A k \in BreaksBefore(blocks, i) : k <= j

\* the pages ended by the PageBreaks before block i, one pair (j, p) for page
\* p of the section that the PageBreak at j ends: the section fills the pages
\* its rows need, and the PageBreak ends the page it is on
PagesEnded(blocks, cap, i) ==
    Cardinality(UNION {{j} \X (0..(RowsIn(blocks, LastBreak(blocks, j) + 1, j - 1) \div cap))
                       : j \in BreaksBefore(blocks, i)})

\* the rows laid out on the pages before block i and on its page above it
RowsBefore(blocks, cap, i) ==
    cap * PagesEnded(blocks, cap, i) + RowsIn(blocks, LastBreak(blocks, i) + 1, i - 1)

\* the page on which each block starts
PageOf(blocks, cap) ==
    [i \in 1..Len(blocks) |-> 1 + (RowsBefore(blocks, cap, i) \div cap)]

\* the number of pages of the artifact: the page on which the last block ends
\* (a PageBreak that ends the sequence opens no further page)
PageCount(blocks, cap) ==
    IF blocks = <<>> THEN 1
    ELSE LET n == Len(blocks)
             before == RowsBefore(blocks, cap, n)
             h == Height(blocks[n])
         IN IF h = 0 THEN 1 + (before \div cap)
            ELSE 1 + ((before + h - 1) \div cap)

RECURSIVE SumSeq(_)
SumSeq(ws) == IF ws = <<>> THEN 0 ELSE Head(ws) + SumSeq(Tail(ws))

\* a table whose columns are wider than the frame of document d
OverWide(b, d) == b.kind = "Table" /\ SumSeq(b.colWidths) > ContentWidth(d)

NumPageBreaks(blocks) == Cardinality({i \in 1..Len(blocks) : blocks[i].kind = "PageBreak"})

(***************************************************************************)
(* State.                                                                  *)
(***************************************************************************)
VARIABLES
    prog,        \* the statements of the function body being run
    frameCap,    \* the engine's frame capacity in rows
    run,         \* how many times the entry point was called
    pc,          \* the statement the current call is at
    status,      \* "idle", "running", "done" (returned) or "failed" (raised)
    err,         \* the exception that left the call, or "none"
    doc,         \* the SimpleDocTemplate of line 20
    elements,    \* the list of line 31
    styles,      \* the names of the style sheet of line 34
    styleTable,  \* the ParagraphStyle objects built so far by this call
    out,         \* what the call printed
    builds,      \* how many times this call called doc.build
    handle,      \* the output file handle: "none", "open" or "closed"
    fs,          \* the files on disk, each with its path
    renders      \* every call of doc.build so far: its run, input and outcome

vars == << prog, frameCap, run, pc, status, err, doc, elements, styles,
           styleTable, out, builds, handle, fs, renders >>

NoFile == [path |-> <<>>, state |-> "absent", run |-> 0, pages |-> 0, pageOf |-> <<>>]

\* the file at a path, or NoFile
FileAt(path) ==
    IF \E f \in fs : f.path = path THEN CHOOSE f \in fs : f.path = path ELSE NoFile

\* lines 18-21: the document writes to the one name it was built with
OutputPath(d) == <<d.filename>>

\* a file opened for appending keeps what it held
OpenedForAppend(old) == old

\* line 692: the engine opens the file for writing ('wb'), which creates it or
\* empties it
Opened(old) == [old EXCEPT !.state = "partial", !.pages = 0, !.pageOf = <<>>]

\* the files after the document's file was opened and data written to it
Written(d, state, pages, pageOf) ==
    LET was == Opened(FileAt(OutputPath(d)))
    IN {f \in fs : f.path # OutputPath(d)}
       \cup {[path |-> OutputPath(d), state |-> state, run |-> run,
               pages |-> was.pages + pages, pageOf |-> was.pageOf \o pageOf]}

\* the exceptions of the model
Errors == {"KeyError", "NameError", "UnicodeEncodeError", "IOError", "LayoutError"}

FrameCaps == MinFrameCap..MaxFrameCap

InitWith(p) ==
    /\ prog = p
    /\ frameCap \in FrameCaps
    /\ run = 0
    /\ pc = 1
    /\ status = "idle"
    /\ err = "none"
    /\ doc = NoDoc
    /\ elements = <<>>
    /\ styles = {}
    /\ styleTable = {}
    /\ out = <<>>
    /\ builds = 0
    /\ handle = "none"
    /\ fs = {}
    /\ renders = <<>>

Init == InitWith(Program)

Running == status = "running" /\ pc <= Len(prog)
At(op) == Running /\ prog[pc].op = op

\* an exception that is caught and dropped, the call going on
RaiseSwallowed(e) == [status |-> "running", err |-> e]

\* an exception leaves the call: nothing in the source catches it (no try
\* statement in lines 14-705), so the call ends and the caller gets e
Raise(e) == [status |-> "failed", err |-> e]

\* the names a block refers to
StyleRefs(b) == IF b.kind = "Paragraph" THEN {b.style} ELSE b.cellStyles

StyleNames(table) == {s.name : s \in table}

\* a lookup that falls back to a default style for a name it does not hold
InSheetOrDefault(sheet, name) == TRUE

\* styles[name] of lines 39, 49, 60, 70, 79, ...: the sheet holds the name
InSheet(sheet, name) == name \in sheet

\* whether the statement's ParagraphStyle(...) calls find their parents
ParentsFound(st, sheet) ==
    /\ st.op = "style" => InSheet(sheet, st.sdef.parent)
    /\ \A i \in 1..Len(st.inl) : InSheet(sheet, st.inl[i].parent)

\* the styles a statement builds
Built(st) == (IF st.op = "style" THEN {st.sdef} ELSE {}) \cup {st.inl[i] : i \in 1..Len(st.inl)}

\* whether every style variable the statement reads is bound
RefsBound(st, table) ==
    st.op = "append" => StyleRefs(st.blk) \subseteq StyleNames(table \cup Built(st))

\* a list kept from call to call, as a module-level list would be
NewListKept(old) == old

\* line 31: elements = [], a new list whatever the name held before
NewList(old) == <<>>

(***************************************************************************)
(* Actions.                                                                *)
(***************************************************************************)
\* line 705: create_api_pdf() is entered; the new call has no local bound
StartRun ==
    /\ status \in {"idle", "done", "failed"}
    /\ run < MaxRuns
    /\ run' = run + 1
    /\ pc' = 1
    /\ status' = "running"
    /\ err' = "none"
    /\ styles' = {}
    /\ styleTable' = {}
    /\ out' = <<>>
    /\ builds' = 0
    /\ handle' = "none"
    /\ UNCHANGED << prog, frameCap, doc, elements, fs, renders >>

\* lines 18-28
BindDoc ==
    /\ At("doc")
    /\ doc' = SimpleDocTemplate
    /\ pc' = pc + 1
    /\ UNCHANGED << prog, frameCap, run, status, err, elements, styles, styleTable,
                    out, builds, handle, fs, renders >>

\* line 31
BindList ==
    /\ At("list")
    /\ elements' = NewList(elements)
    /\ pc' = pc + 1
    /\ UNCHANGED << prog, frameCap, run, status, err, doc, styles, styleTable,
                    out, builds, handle, fs, renders >>

\* line 34
BindSheet ==
    /\ At("sheet")
    /\ styles' = SampleStyleSheet
    /\ pc' = pc + 1
    /\ UNCHANGED << prog, frameCap, run, status, err, doc, elements, styleTable,
                    out, builds, handle, fs, renders >>

\* lines 37-85, 680-687: x_style = ParagraphStyle(name, parent=styles[parent], ...)
DefineStyle ==
    /\ At("style")
    /\ ParentsFound(prog[pc], styles)
    /\ styleTable' = styleTable \cup Built(prog[pc])
    /\ pc' = pc + 1
    /\ UNCHANGED << prog, frameCap, run, status, err, doc, elements, styles,
                    out, builds, handle, fs, renders >>

\* AppendBlock with the width check the source does not have: an over-wide
\* table raises instead of being appended
AppendBlockChecked ==
    /\ At("append")
    /\ ParentsFound(prog[pc], styles)
    /\ RefsBound(prog[pc], styleTable)
    /\ IF OverWide(prog[pc].blk, doc)
       THEN /\ status' = "failed"
            /\ err' = "ConfigurationError"
            /\ UNCHANGED << styleTable, elements, pc >>
       ELSE /\ styleTable' = styleTable \cup Built(prog[pc])
            /\ elements' = Append(elements, prog[pc].blk)
            /\ pc' = pc + 1
            /\ UNCHANGED << status, err >>
    /\ UNCHANGED << prog, frameCap, run, doc, styles, out, builds, handle, fs, renders >>

\* elements.append(block): the styles built in place are built first, then the
\* block, then it is appended; nothing is checked about the block
AppendBlock ==
    /\ At("append")
    /\ ParentsFound(prog[pc], styles)
    /\ RefsBound(prog[pc], styleTable)
    /\ styleTable' = styleTable \cup Built(prog[pc])
    /\ elements' = Append(elements, prog[pc].blk)
    /\ pc' = pc + 1
    /\ UNCHANGED << prog, frameCap, run, status, err, doc, styles,
                    out, builds, handle, fs, renders >>

\* styles[parent] with a name the sheet does not hold: KeyError
StyleKeyError ==
    /\ Running
    /\ prog[pc].op \in {"style", "append"}
    /\ ~ParentsFound(prog[pc], styles)
    /\ status' = Raise("KeyError").status
    /\ err' = Raise("KeyError").err
    /\ UNCHANGED << prog, frameCap, run, pc, doc, elements, styles, styleTable,
                    out, builds, handle, fs, renders >>

\* a style variable read before it is bound: NameError
StyleNameError ==
    /\ At("append")
    /\ ParentsFound(prog[pc], styles)
    /\ ~RefsBound(prog[pc], styleTable)
    /\ status' = Raise("NameError").status
    /\ err' = Raise("NameError").err
    /\ UNCHANGED << prog, frameCap, run, pc, doc, elements, styles, styleTable,
                    out, builds, handle, fs, renders >>

\* line 691 on a stdout that encodes the text
SayGenerating ==
    /\ At("say")
    /\ out' = Append(out, <<"Generating PDF...">>)
    /\ pc' = pc + 1
    /\ UNCHANGED << prog, frameCap, run, status, err, doc, elements, styles,
                    styleTable, builds, handle, fs, renders >>

\* line 691 on a stdout whose encoding has no rocket: print raises
SayGeneratingFails ==
    /\ At("say")
    /\ status' = Raise("UnicodeEncodeError").status
    /\ err' = Raise("UnicodeEncodeError").err
    /\ UNCHANGED << prog, frameCap, run, pc, doc, elements, styles, styleTable,
                    out, builds, handle, fs, renders >>

\* an engine that lays the blocks out and leaves the list as it was handed over
LaidOutKept(blocks, n) == blocks

\* line 692: the engine takes each block off the front of the list it was handed
\* as it lays it out (handle_flowable: del flowables[0]); after n blocks the
\* list holds the rest, and nothing when the layout is done
LaidOut(blocks, n) == SubSeq(blocks, n + 1, Len(blocks))

\* a call of doc.build: the run, the list handed over, the outcome, and the
\* pagination when the engine finished it
Render(result) ==
    [run |-> run, blocks |-> elements, result |-> result,
     pages |-> IF result = "ok" THEN PageCount(elements, frameCap) ELSE 0,
     pageOf |-> IF result = "ok" THEN PageOf(elements, frameCap) ELSE <<>>]

\* line 692: the layout is done, the file is opened, written and closed
BuildOk ==
    /\ At("build")
    /\ builds' = builds + 1
    /\ renders' = Append(renders, Render("ok"))
    /\ fs' = Written(doc, "complete", PageCount(elements, frameCap),
                      PageOf(elements, frameCap))
    /\ handle' = "closed"
    /\ elements' = LaidOut(elements, Len(elements))
    /\ pc' = pc + 1
    /\ UNCHANGED << prog, frameCap, run, status, err, doc, styles, styleTable, out >>

\* line 692: the layout is done and the file cannot be opened for writing (no
\* permission, no such directory): open raises, the path is left as it was
BuildOpenFails ==
    /\ At("build")
    /\ builds' = builds + 1
    /\ renders' = Append(renders, Render("IOError"))
    /\ elements' = LaidOut(elements, Len(elements))
    /\ status' = Raise("IOError").status
    /\ err' = Raise("IOError").err
    /\ UNCHANGED << prog, frameCap, run, pc, doc, styles, styleTable, out, handle, fs >>

\* line 692: the layout is done, the file is opened, which truncates it, and the
\* write fails (disk full): nothing in the source closes the handle or removes
\* the file
BuildWriteFails ==
    /\ At("build")
    /\ builds' = builds + 1
    /\ renders' = Append(renders, Render("IOError"))
    /\ fs' = Written(doc, "partial", 0, <<>>)
    /\ handle' = "open"
    /\ elements' = LaidOut(elements, Len(elements))
    /\ status' = Raise("IOError").status
    /\ err' = Raise("IOError").err
    /\ UNCHANGED << prog, frameCap, run, pc, doc, styles, styleTable, out >>

\* line 692: the engine gives up on a table wider than its frame, before it
\* opens the file; the blocks up to that table are off the list
BuildLayoutError ==
    /\ At("build")
    /\ \E i \in 1..Len(elements) :
          /\ OverWide(elements[i], doc)
          /\ \A j \in 1..(i - 1) : ~OverWide(elements[j], doc)
          /\ elements' = LaidOut(elements, i)
    /\ builds' = builds + 1
    /\ renders' = Append(renders, Render("LayoutError"))
    /\ status' = Raise("LayoutError").status
    /\ err' = Raise("LayoutError").err
    /\ UNCHANGED << prog, frameCap, run, pc, doc, styles, styleTable, out, handle, fs >>

\* lines 694-702, then the function returns
Confirm ==
    /\ At("confirm")
    /\ out' = Append(out, <<"PDF generated successfully:", doc.filename>>)
    /\ status' = "done"
    /\ pc' = pc + 1
    /\ UNCHANGED << prog, frameCap, run, err, doc, elements, styles, styleTable,
                    builds, handle, fs, renders >>

\* create_api_pdf as it is: its statements never meet an undefined style or an
\* over-wide table, so the three actions for those are left to ScenarioNext
Next ==
    \/ StartRun
    \/ BindDoc
    \/ BindList
    \/ BindSheet
    \/ DefineStyle
    \/ AppendBlock
    \/ SayGenerating
    \/ SayGeneratingFails
    \/ BuildOk
    \/ BuildOpenFails
    \/ BuildWriteFails
    \/ Confirm

Spec == Init /\ [][Next]_vars

\* the call is one blocking call: a statement that can run does run
FairSpec == Spec /\ WF_vars(Next)


(***************************************************************************)
(* The same statements run on other documents: a title style whose parent  *)
(* may be missing from the sheet, a title paragraph whose style variable   *)
(* may be unbound, a page break and a one-row table of two columns of k    *)
(* inches each.  create_api_pdf itself is one of the documents.            *)
(***************************************************************************)
ScenarioParents == {"Heading1", "Heading7"}
ScenarioRefs == {title_style, footer_style}
ScenarioWidths == {<<k * inch, k * inch>> : k \in 1..MaxColInches}

ScenarioProg(parent, ref, widths) ==
    << DocStmt, ListStmt, SheetStmt,
       DefStyle(ParagraphStyle(title_style.name, parent, "", 0)),
       P(Txt("Title"), ref),
       PB,
       T("data", 1, widths, HeaderTableStyle),
       SayStmt, BuildStmt, ConfirmStmt >>

ScenarioProgs ==
    {Program} \cup
    {ScenarioProg(parent, ref, widths) :
        parent \in ScenarioParents, ref \in ScenarioRefs, widths \in ScenarioWidths}

ScenarioInit == \E p \in ScenarioProgs : InitWith(p)

ScenarioNext ==
    \/ Next
    \/ StyleKeyError
    \/ StyleNameError
    \/ BuildLayoutError

ScenarioSpec == ScenarioInit /\ [][ScenarioNext]_vars

(***************************************************************************)
(* Properties.                                                             *)
(***************************************************************************)
Tables(blocks) == {i \in 1..Len(blocks) : blocks[i].kind = "Table"}

\* C1: every Table appended by create_api_pdf has explicit column widths whose
\* sum is at most the content width, the A4 width minus the two side margins.
C1_TablesFitContentWidth ==
    \A i \in Tables(elements) :
        /\ elements[i].colWidths # <<>>
        /\ SumSeq(elements[i].colWidths) <= doc.pageWidth - doc.leftMargin - doc.rightMargin

\* the call has appended its eight tables and is about to call the engine
C1_Witness ==
    /\ At("build")
    /\ Cardinality(Tables(elements)) = 8
    /\ doc.pageWidth = A4Width

Appends(p) == {i \in 1..Len(p) : p[i].op = "append"}

FailedOnStyle ==
    /\ status = "failed"
    /\ prog[pc].op \in {"style", "append"}
    /\ \/ ~(\A s \in Built(prog[pc]) : s.parent \in styles)
       \/ ~(StyleRefs(prog[pc].blk) \subseteq StyleNames(styleTable \cup Built(prog[pc])))

Where(blocks, Test(_)) ==
    LET Passes(i) == Test(blocks[i])
    IN SelectSeq([i \in 1..Len(blocks) |-> i], Passes)

IsPageBreak(b) == b.kind = "PageBreak"
IsSpacer(b) == b.kind = "Spacer"
IsHeading(b) == b.kind = "Paragraph" /\ b.style = heading_style.name
IsSubHeading(b) == b.kind = "Paragraph" /\ b.style = subheading_style.name
IsProse(b) == b.kind = "Paragraph" /\ b.style = body_style.name
IsExample(b) == b.kind = "Table" \/ (b.kind = "Paragraph" /\ b.style = code_style.name)
IsCallOut(b) ==
    b.kind = "Paragraph" /\ b.style \in {ReqBoxStyle.name, AuthStyle.name, NoteStyle.name}

\* the renders that finished
Finished == {r \in 1..Len(renders) : renders[r].result = "ok"}

\* C4: a rendered artifact has at least one page more than the sequence has
\* PageBreaks, every block after a PageBreak starts on a later page than the
\* PageBreak, and the sequence of create_api_pdf holds 14 PageBreaks, so its
\* artifact has at least 15 pages.
C4_PagesAtLeastBreaksPlusOne ==
    \A r \in Finished :
        LET b == renders[r].blocks
        IN /\ renders[r].pages >= NumPageBreaks(b) + 1
           /\ \A i \in 1..(Len(b) - 1) :
                 IsPageBreak(b[i]) => renders[r].pageOf[i + 1] > renders[r].pageOf[i]
           /\ NumPageBreaks(b) = 14
           /\ renders[r].pages >= 15

\* an artifact was written, and the engine added pages of its own to it
C4_Witness ==
    /\ FileAt(OutputPath(doc)).state = "complete"
    /\ \E r \in Finished : renders[r].pages > NumPageBreaks(renders[r].blocks) + 1

\* the headings of the API areas, in the order of the document
SectionOrder ==
    << "Authentication & Authorization", "User Management Endpoints",
       "Medicine Store Endpoints", "Admin Store Management", "Items Management",
       "Location Services", "Unit Management", "GST Rate Management", "Orders",
       "Payments", "Notifications", "Standard Response Formats" >>

\* C5: the sequence handed to the engine is the title page, a PageBreak, the
\* table of contents, a PageBreak, then the sections in their order, each
\* begun right after a PageBreak, and the closing summary as the last block.
C5_TopLevelOrder ==
    \A r \in 1..Len(renders) :
        LET b == renders[r].blocks
            n == Len(b)
            brk == Where(b, IsPageBreak)
            hd == Where(b, IsHeading)
        IN /\ Len(brk) = Len(SectionOrder) + 2
           /\ Len(hd) = Len(SectionOrder) + 1
           \* the title page: the title table and no heading
           /\ \E i \in 1..(brk[1] - 1) : b[i].kind = "Table" /\ b[i].text = <<"title_data">>
           /\ hd[1] = brk[1] + 1
           \* the table of contents: its heading, then entries and spacers
           /\ b[hd[1]].text = <<"Table of Contents">>
           /\ \A i \in (hd[1] + 1)..(brk[2] - 1) : IsProse(b[i]) \/ IsSpacer(b[i])
           \* the sections
           /\ \A k \in 1..Len(SectionOrder) :
                 /\ hd[k + 1] = brk[k + 1] + 1
                 /\ b[hd[k + 1]].text = <<SectionOrder[k]>>
           \* the closing summary
           /\ brk[Len(brk)] = n - 1
           /\ b[n].kind = "Paragraph" /\ b[n].style = footer_style.name

\* the engine was handed the sequence of a call
C5_Witness ==
    \E r \in 1..Len(renders) : renders[r].run = run /\ Len(renders[r].blocks) > 200

Methods == {"GET", "POST", "PUT", "PATCH", "DELETE"}

\* the title of an endpoint: "METHOD /path", or the same in bold
IsEndpointTitle(b) ==
    /\ b.kind = "Paragraph"
    /\ \/ Len(b.text) = 2 /\ b.text[1] \in Methods
       \/ Len(b.text) = 4 /\ b.text[1] = "<b>" /\ b.text[2] \in Methods

\* a block that ends the subsection before it
EndsSubsection(b) ==
    IsEndpointTitle(b) \/ IsSubHeading(b) \/ IsHeading(b) \/ IsPageBreak(b)

\* the last block of the subsection that starts at s
SubsectionEnd(b, s) ==
    LET stops == {j \in (s + 1)..Len(b) : EndsSubsection(b[j])}
    IN IF stops = {} THEN Len(b)
       ELSE (CHOOSE j \in stops : \A k \in stops : j <= k) - 1

Subsections(b) == {s \in 1..Len(b) : IsEndpointTitle(b[s])}

C7_RunsBuildEqualSequences ==
    \A r1, r2 \in 1..Len(renders) :
        /\ Len(renders[r1].blocks) = Cardinality(Appends(prog))
        /\ renders[r1].blocks = renders[r2].blocks
        /\ (r1 \in Finished /\ r2 \in Finished) =>
              /\ renders[r1].pages = renders[r2].pages
              /\ renders[r1].pageOf = renders[r2].pageOf

\* two calls, one after the other, have both rendered
C7_Witness ==
    \E r1, r2 \in Finished : renders[r1].run = 1 /\ renders[r2].run = 2


\* C8 as claimed: a call that fails with an IOError leaves no file at the output
\* path and no open handle.
C8_IOErrorLeavesNoArtifact ==
    (status = "failed" /\ err = "IOError") => (FileAt(OutputPath(doc)).state = "absent" /\ handle # "open")

\* the confirmation of line 694 is in what was printed
Confirmed(printed) ==
    \E i \in 1..Len(printed) : printed[i][1] = "PDF generated successfully:"

\* C9: a failure ends the call: the error leaves the call uncaught, the failed
\* call builds at most once and never prints the confirmation, the failing
\* statement appends and prints nothing (a failing build leaves of the list
\* what the engine had not laid out), and nothing happens after the failure
\* until the entry point is called again.
C9_FailureAbortsRun ==
    [][ /\ err' # "none" => status' = "failed"
        /\ status' = "failed" =>
              /\ err' \in Errors
              /\ builds' <= 1
              /\ ~Confirmed(out')
        /\ (status = "running" /\ status' = "failed") =>
              /\ \E n \in 0..Len(elements) : elements' = LaidOut(elements, n)
              /\ out' = out
              /\ pc' = pc
        /\ (status = "failed" /\ run' = run) => UNCHANGED vars ]_vars

\* a call that failed in the engine, after building the whole sequence
C9_Witness ==
    /\ status = "failed"
    /\ err = "IOError"
    /\ builds = 1
    /\ prog[pc].op = "build"

\* C10: every call ends, either returned, with the confirmation printed after
\* its one build call finished and no error, or failed, with an error and no
\* confirmation; never both.
C10_RunTerminatesOneWay ==
    /\ [](status = "done" =>
            /\ err = "none"
            /\ Confirmed(out)
            /\ out[Len(out)] = <<"PDF generated successfully:", pdf_filename>>)
    /\ [](Confirmed(out) =>
            /\ builds = 1
            /\ \E r \in Finished : renders[r].run = run)
    /\ [](status = "failed" => (err # "none" /\ ~Confirmed(out)))
    /\ [](status = "running" => <>(status \in {"done", "failed"}))

\* a call that returned after printing the confirmation
C10_Witness ==
    /\ status = "done"
    /\ Confirmed(out)
    /\ FileAt(OutputPath(doc)).state = "complete"
    /\ FileAt(OutputPath(doc)).run = run

\* C11 as claimed: every append happens before the build call, the engine is
\* called at most once in a call and once in a call that returns, and from the
\* start of the build call on no block is appended to, removed from or changed
\* in the sequence.
C11_SequenceUntouchedOnceRenderingStarts ==
    [][ /\ builds' <= 1
        /\ status' = "done" => builds' = 1
        /\ Len(elements') > Len(elements) => builds' = 0
        /\ (run' = run /\ (At("build") \/ builds >= 1)) => elements' = elements ]_vars

\* C11 as amended: the call appends one block at a time and only before its
\* build call, hands the engine all the blocks of its appends, calls it at most
\* once and once when it returns, and appends, removes and changes nothing
\* afterwards; the build call itself takes the blocks it lays out off the list.
C11_BuiltOnceThenConsumedByEngine ==
    [][ /\ builds' <= 1
        /\ status' = "done" => builds' = 1
        /\ Len(elements') > Len(elements) =>
              /\ builds' = 0
              /\ elements' = Append(elements, prog[pc].blk)
        /\ builds' = builds + 1 =>
              /\ renders'[Len(renders')].blocks = elements
              /\ Len(elements) = Cardinality(Appends(prog))
              /\ \E n \in 0..Len(elements) : elements' = LaidOut(elements, n)
        /\ (run' = run /\ builds >= 1) => elements' = elements ]_vars

\* a call that returned: the engine got the whole sequence and left the list empty
C11_Witness ==
    /\ status = "done"
    /\ builds = 1
    /\ elements = <<>>
    /\ \E r \in 1..Len(renders) :
          renders[r].run = run /\ Len(renders[r].blocks) = Cardinality(Appends(prog))

\* C12: there is never more than one output file and it is at the fixed path
\* API_DOCUMENTATION.pdf; when a call has returned, the file is complete and
\* holds the pages of that call's sequence alone, whatever earlier calls wrote.
C12_OneArtifactOfLatestRun ==
    /\ Cardinality(fs) <= 1
    /\ \A f \in fs : f.path = <<pdf_filename>>
    /\ status = "done" =>
          \E f \in fs : \E r \in Finished :
              /\ renders[r].run = run
              /\ f.state = "complete"
              /\ f.run = run
              /\ f.pages = renders[r].pages
              /\ f.pageOf = renders[r].pageOf
              /\ Len(f.pageOf) = Len(renders[r].blocks)

\* the second call has returned, having written over the file of the first
C12_Witness ==
    /\ status = "done"
    /\ run = 2
    /\ \E r \in Finished : renders[r].run = 1
    /\ \E f \in fs : f.state = "complete" /\ f.run = 2

\* whether row 0 of a table, and no other row, has the header styling
HeaderOnRowZeroOnly(t) ==
    /\ RowBackground(t, 0) = "#667eea"
    /\ RowTextColor(t, 0) = "whitesmoke"
    /\ RowFontName(t, 0) = "Helvetica-Bold"
    /\ \A r \in 1..(t.rows - 1) :
          /\ RowBackground(t, r) # RowBackground(t, 0)
          /\ RowTextColor(t, r) # RowTextColor(t, 0)
          /\ RowFontName(t, r) # RowFontName(t, 0)

\* whether any two adjacent body rows of a table differ in background
BodyRowsAlternate(t) ==
    \A r \in 1..(t.rows - 2) : RowBackground(t, r) # RowBackground(t, r + 1)

\* the tables that lay out the title page, not data
IsTitlePageTable(t) == t.text \in {<<"title_data">>, <<"metadata_data">>}

\* C13 as claimed: every Table of the document has the header styling on row 0
\* only, and body rows that alternate between two backgrounds.
C13_EveryTableHasHeaderAndAlternatingRows ==
    \A r \in 1..Len(renders) :
        LET b == renders[r].blocks
        IN \A i \in Tables(b) : HeaderOnRowZeroOnly(b[i]) /\ BodyRowsAlternate(b[i])

\* C13 as amended: the six data tables have the header styling on row 0 only
\* and alternating body rows; the title table and the metadata table have one
\* background on all their rows, the metadata table with a bold row 0.
C13_DataTablesHaveHeaderAndAlternatingRows ==
    \A r \in 1..Len(renders) :
        LET b == renders[r].blocks
        IN \A i \in Tables(b) :
              IF IsTitlePageTable(b[i])
              THEN /\ \A x, y \in 0..(b[i].rows - 1) :
                         /\ RowBackground(b[i], x) = RowBackground(b[i], y)
                         /\ RowTextColor(b[i], x) = RowTextColor(b[i], y)
                   /\ ~HeaderOnRowZeroOnly(b[i])
                   /\ b[i].rows > 2 => ~BodyRowsAlternate(b[i])
              ELSE /\ HeaderOnRowZeroOnly(b[i])
                   /\ BodyRowsAlternate(b[i])
                   /\ \A x \in 1..(b[i].rows - 1) :
                         RowBackground(b[i], x) \in {"white", "#f9f9f9"}

\* the engine was handed the six data tables, one of them of twelve rows, and
\* the two tables of the title page
C13_Witness ==
    \E r \in 1..Len(renders) :
        LET b == renders[r].blocks
        IN /\ Cardinality({i \in Tables(b) : ~IsTitlePageTable(b[i])}) = 6
           /\ Cardinality({i \in Tables(b) : IsTitlePageTable(b[i])}) = 2
           /\ \E i \in Tables(b) : b[i].rows = 12 /\ BodyRowsAlternate(b[i])

\* the texts of the requirement, authentication and note call-outs (lines 262,
\* 273, 295, 348, 379, 407, 435, 581)
CallOutTexts ==
    { Txt("<b>Requirements:</b>..."),
      Txt("<b>Authentication Required:</b> Bearer Token or Valid JWT Cookie"),
      Txt("<b>Requires:</b> verifyInternalService Middleware"),
      Txt("<b>Validation Requirements:</b>..."),
      Txt("<b>Item Requirements:</b>..."),
      Txt("<b>Note:</b> Public endpoints, no authentication required."),
      Txt("<b>Notification Requirements:</b>...") }

CallOuts(blocks) == {i \in 1..Len(blocks) : blocks[i].text \in CallOutTexts}

\* C14: every call-out a call hands to the engine is a Paragraph, as prose is,
\* never a Table; its style is not the prose style, and every style the call
\* built under its style's name has a background colour and a positive left
\* indent, which the prose style has not.
C14_CallOutsAreStyledParagraphs ==
    \A r \in 1..Len(renders) :
        renders[r].run = run =>
            LET b == renders[r].blocks
            IN \A i \in CallOuts(b) :
                  /\ b[i].kind = "Paragraph"
                  /\ b[i].style # body_style.name
                  /\ \E s \in styleTable : s.name = b[i].style
                  /\ \A s \in styleTable :
                        s.name = b[i].style => (s.backColor # "" /\ s.leftIndent > 0)
                  /\ \A s \in styleTable :
                        s.name = body_style.name => (s.backColor = "" /\ s.leftIndent = 0)

\* the call has handed its eight call-outs, of three styles, to the engine
C14_Witness ==
    \E r \in 1..Len(renders) :
        LET b == renders[r].blocks
        IN /\ renders[r].run = run
           /\ Cardinality(CallOuts(b)) = 8
           /\ Cardinality({b[i].style : i \in CallOuts(b)}) = 3

\* k millimetres in the unit of the model: 1 inch is 25.4 mm
Millimetres(k) == (k * (inch \div 127)) * 5

\* equal up to a hundredth of a millimetre
Near(x, y) == x - y <= Millimetres(1) \div 100 /\ y - x <= Millimetres(1) \div 100

\* C15: the document handed to the engine has left and right margins of 15 mm
\* and top and bottom margins of 20 mm.
C15_MarginsAre15And20Millimetres ==
    doc # NoDoc =>
        /\ Near(doc.leftMargin, Millimetres(15))
        /\ Near(doc.rightMargin, Millimetres(15))
        /\ Near(doc.topMargin, Millimetres(20))
        /\ Near(doc.bottomMargin, Millimetres(20))

\* the words of the table-of-contents entries (lines 138-149) and of the
\* section headings (lines 159-591), as str.split gives them
WordsOf(text) ==
    CASE text = "1. Authentication & Authorization" -> <<"1.", "Authentication", "&", "Authorization">>
      [] text = "2. User Management" -> <<"2.", "User", "Management">>
      [] text = "3. Medicine Store" -> <<"3.", "Medicine", "Store">>
      [] text = "4. Admin Store Management" -> <<"4.", "Admin", "Store", "Management">>
      [] text = "5. Items Management" -> <<"5.", "Items", "Management">>
      [] text = "6. Location Services" -> <<"6.", "Location", "Services">>
      [] text = "7. Unit Management" -> <<"7.", "Unit", "Management">>
      [] text = "8. GST Management" -> <<"8.", "GST", "Management">>
      [] text = "9. Orders" -> <<"9.", "Orders">>
      [] text = "10. Payments" -> <<"10.", "Payments">>
      [] text = "11. Notifications" -> <<"11.", "Notifications">>
      [] text = "12. Response Formats" -> <<"12.", "Response", "Formats">>
      [] text = "Authentication & Authorization" -> <<"Authentication", "&", "Authorization">>
      [] text = "User Management Endpoints" -> <<"User", "Management", "Endpoints">>
      [] text = "Medicine Store Endpoints" -> <<"Medicine", "Store", "Endpoints">>
      [] text = "Admin Store Management" -> <<"Admin", "Store", "Management">>
      [] text = "Items Management" -> <<"Items", "Management">>
      [] text = "Location Services" -> <<"Location", "Services">>
      [] text = "Unit Management" -> <<"Unit", "Management">>
      [] text = "GST Rate Management" -> <<"GST", "Rate", "Management">>
      [] text = "Orders" -> <<"Orders">>
      [] text = "Payments" -> <<"Payments">>
      [] text = "Notifications" -> <<"Notifications">>
      [] text = "Standard Response Formats" -> <<"Standard", "Response", "Formats">>
      [] OTHER -> <<text>>

\* whether the words a are among the words b, in their order
WordsAmong(a, b) ==
    \E f \in [1..Len(a) -> 1..Len(b)] :
        /\ \A i \in 1..Len(a) : a[i] = b[f[i]]
        /\ \A i, j \in 1..Len(a) : i < j => f[i] < f[j]

\* whether a table-of-contents entry names a section: after its number, its
\* words are among the words of the section's heading
Names(entry, heading) ==
    WordsAmong(Tail(WordsOf(entry[1])), WordsOf(heading[1]))

\* C16: the table of contents is one Paragraph and one Spacer per entry of
\* toc_items, in the order of the list; there are as many entries as section
\* headings after it, entry k is numbered k and names the k-th section heading
\* and no other.
C16_ContentsMatchSections ==
    \A r \in 1..Len(renders) :
        LET b == renders[r].blocks
            hd == Where(b, IsHeading)
            brk == Where(b, IsPageBreak)
            n == Len(toc_items)
        IN /\ n = 12
           /\ Len(hd) = n + 1
           /\ brk[2] = hd[1] + 2 * n + 1
           /\ \A k \in 1..n :
                 /\ b[hd[1] + 2 * k - 1] = Paragraph(<<toc_items[k]>>, body_style.name)
                 /\ IsSpacer(b[hd[1] + 2 * k])
                 /\ WordsOf(toc_items[k])[1] = ToString(k) \o "."
                 /\ hd[k + 1] > brk[2]
                 /\ \A j \in 1..n :
                       Names(b[hd[1] + 2 * k - 1].text, b[hd[j + 1]].text) <=> j = k

\* the engine was handed the table of contents and the twelve sections, some
\* of them under a longer heading than their entry
C16_Witness ==
    \E r \in 1..Len(renders) :
        LET b == renders[r].blocks
            hd == Where(b, IsHeading)
        IN /\ Len(hd) = 13
           /\ \E k \in 1..12 : Len(WordsOf(b[hd[k + 1]].text[1])) > Len(WordsOf(toc_items[k])) - 1

\* C17: in the sequence handed to the engine no two PageBreaks are adjacent,
\* the first and the last block are no PageBreaks, and the block right after a
\* PageBreak is a top-level heading, or, after the last PageBreak, the closing
\* summary paragraph.
C17_PageBreaksSeparateSections ==
    \A r \in 1..Len(renders) :
        LET b == renders[r].blocks
            n == Len(b)
            brk == {i \in 1..n : IsPageBreak(b[i])}
        IN /\ n > 0
           /\ ~IsPageBreak(b[1])
           /\ ~IsPageBreak(b[n])
           /\ \A i \in brk :
                 /\ i < n
                 /\ ~IsPageBreak(b[i + 1])
                 /\ IF \A j \in brk : j <= i
                    THEN /\ b[i + 1].kind = "Paragraph"
                         /\ b[i + 1].style = footer_style.name
                         /\ b[i + 1].text = <<"footer_content">>
                    ELSE IsHeading(b[i + 1])

\* the engine was handed the fourteen PageBreaks, the last one right before the
\* last block
C17_Witness ==
    \E r \in 1..Len(renders) :
        LET b == renders[r].blocks
        IN /\ NumPageBreaks(b) = 14
           /\ IsPageBreak(b[Len(b) - 1])
           /\ IsSpacer(b[1])

====
